---- MODULE Spec2Model ----
(***************************************************************************)
(* A model of clar2wasm's WasmGenerator (src/clar2wasm/src/               *)
(* wasm_generator.rs): the generator's fields, the lowering rules of the   *)
(* visitor, the module they build, and the execution of the emitted        *)
(* instructions against a linear memory, the stack-pointer global and a    *)
(* host that keeps the contract's data variables.                          *)
(*                                                                         *)
(* The input is the typed AST: every expression is a tuple                 *)
(* <<form, type, ...>> whose second component is the type the type map     *)
(* holds for it.  Inputs on which the generator panics (expect, unwrap,    *)
(* unimplemented!, assert_eq!) abort the process before any state of the   *)
(* lifecycle is reached and are kept out of the input sets.                *)
(***************************************************************************)
EXTENDS Integers, Sequences, FiniteSets, TLC

VARIABLES
    phase,               \* lifecycle of the generator value
    expressions,         \* contract_analysis.expressions walked so far
    module,              \* data segments, exports, functions, locals
    error,               \* Option<GeneratorError>
    literal_memory_end,
    identifiers,
    next_identifier,
    locals,
    frame_size,
    current_function,    \* the instructions of the top-level function
    result,              \* what generate() returned
    machine,             \* the instantiated module: globals, memory, host
    calls                \* number of exported functions called so far

vars == <<phase, expressions, module, error, literal_memory_end, identifiers,
          next_identifier, locals, frame_size, current_function, result,
          machine, calls>>

(***************************************************************************)
(* Bounds                                                                  *)
(***************************************************************************)
\* number of top-level forms of a contract
MaxForms == 3
\* number of calls of exported functions after .top-level
MaxCalls == 1
\* iterations after which the execution of a loop is cut
MaxIter == 4

(***************************************************************************)
(* Source types (clarity::vm::types::TypeSignature)                        *)
(***************************************************************************)
NoType == <<"NoType">>
IntType == <<"IntType">>
UIntType == <<"UIntType">>
BoolType == <<"BoolType">>
ASCII(length) == <<"ASCII", length>>
ListType(item, max_len) == <<"ListType", item, max_len>>
ResponseType(o, e) == <<"ResponseType", o, e>>

\* the value a function yields where the code panics
Unimplemented == <<"unimplemented!">>

RECURSIVE get_type_size(_)
get_type_size(ty) ==
    CASE ty[1] \in {"IntType", "UIntType"} -> 16
      [] ty[1] = "ASCII" -> ty[2]
      [] ty[1] = "ListType" ->
            IF get_type_size(ty[2]) < 0 THEN -1 ELSE ty[3] * get_type_size(ty[2])
      [] OTHER -> -1

RECURSIVE clar2wasm_ty(_)
clar2wasm_ty(ty) ==
    CASE ty[1] = "NoType" -> <<"i32">>
      [] ty[1] = "IntType" -> <<"i64", "i64">>
      [] ty[1] = "UIntType" -> <<"i64", "i64">>
      [] ty[1] = "ResponseType" ->
            LET o == clar2wasm_ty(ty[2])
                e == clar2wasm_ty(ty[3])
            IN  IF o = Unimplemented \/ e = Unimplemented
                THEN Unimplemented
                ELSE <<"i32">> \o o \o e
      [] ty[1] \in {"ASCII", "UTF8"} -> <<"i32", "i32">>
      [] OTHER -> Unimplemented

(***************************************************************************)
(* 64-bit words are kept as their 8 bytes, least significant first, so     *)
(* that stores and loads move exactly the bytes the instructions move.     *)
(***************************************************************************)
\* byte k (from 0) of the 128-bit two's complement of i, for |i| < 2^23
Byte128(i, k) ==
    IF k < 3 THEN (i \div (256 ^ k)) % 256
    ELSE IF i < 0 THEN 255 ELSE 0

\* (i >> 64) & 0xFFFFFFFFFFFFFFFF
HighWord(i) ==
    <<Byte128(i, 8), Byte128(i, 9), Byte128(i, 10), Byte128(i, 11),
      Byte128(i, 12), Byte128(i, 13), Byte128(i, 14), Byte128(i, 15)>>
\* i & 0xFFFFFFFFFFFFFFFF
LowWord(i) ==
    <<Byte128(i, 0), Byte128(i, 1), Byte128(i, 2), Byte128(i, 3),
      Byte128(i, 4), Byte128(i, 5), Byte128(i, 6), Byte128(i, 7)>>

\* name.as_bytes()
NameBytes(name) ==
    CASE name = "x" -> <<120>>
      [] name = "yy" -> <<121, 121>>
      [] name = "f" -> <<102>>
      [] name = "g" -> <<103>>
      [] OTHER -> <<63>>

(***************************************************************************)
(* Instructions                                                            *)
(***************************************************************************)
I32Const(n) == <<"i32.const", n>>
I64Const(w) == <<"i64.const", w>>
LocalGet(l) == <<"local.get", l>>
LocalSet(l) == <<"local.set", l>>
LocalTee(l) == <<"local.tee", l>>
GlobalGet == <<"global.get", "stack-pointer">>
GlobalSet == <<"global.set", "stack-pointer">>
Binop(op) == <<"binop", op>>
Store(offset) == <<"i64.store", offset>>
Load(offset) == <<"i64.load", offset>>
Call(name) == <<"call", name>>
Drop == <<"drop">>
BlockInstr(seq) == <<"block", seq>>
LoopInstr(seq) == <<"loop", seq>>
BrIf == <<"br_if", "loop">>
Return == <<"return">>

(***************************************************************************)
(* GeneratorError                                                          *)
(***************************************************************************)
None == <<"None">>
NotImplemented == <<"NotImplemented">>
InternalError(msg) == <<"InternalError", msg>>

(***************************************************************************)
(* The generator, as the record of its fields                              *)
(***************************************************************************)
Self ==
    [module |-> module, error |-> error,
     literal_memory_end |-> literal_memory_end,
     identifiers |-> identifiers, next_identifier |-> next_identifier,
     locals |-> locals, frame_size |-> frame_size]

\* Result<InstrSeqBuilder, InstrSeqBuilder> together with the generator
Ok(self, builder) == [self |-> self, builder |-> builder, ok |-> TRUE]
Err(self, builder) == [self |-> self, builder |-> builder, ok |-> FALSE]

get_expr_type(expr) == expr[2]

\* self.module.locals.add(ty): the id of the new local and the module
NewLocal(self) == Len(self.module.locals) + 1
AddLocal(self, ty) == [self EXCEPT !.module.locals = Append(@, ty)]

RECURSIVE Flatten(_)
Flatten(groups) ==
    IF groups = <<>> THEN <<>> ELSE Head(groups) \o Flatten(Tail(groups))

add_string_literal_skip(self, s) ==
    LET data == IF s[1] = "ASCII" THEN s[2] ELSE Flatten(s[2])
        offset == self.literal_memory_end
    IN  [self |-> [self EXCEPT
                     !.module.data = Append(@, [offset |-> offset, data |-> data])],
         offset |-> offset, len |-> Len(data)]

add_string_literal(self, s) ==
    LET data == IF s[1] = "ASCII" THEN s[2] ELSE Flatten(s[2])
        offset == self.literal_memory_end
    IN  [self |-> [self EXCEPT
                     !.module.data = Append(@, [offset |-> offset, data |-> data]),
                     !.literal_memory_end = @ + Len(data)],
         offset |-> offset, len |-> Len(data)]

add_identifier_string_literal(self, name) ==
    LET offset == self.literal_memory_end
    IN  [self |-> [self EXCEPT
                     !.module.data = Append(@, [offset |-> offset,
                                                data |-> NameBytes(name)]),
                     !.literal_memory_end = @ + Len(NameBytes(name))],
         offset |-> offset, len |-> Len(NameBytes(name))]

create_call_stack_local_no_increment(self, builder, ty) ==
    LET size == get_type_size(ty)
        offset == NewLocal(self)
    IN  [self |-> [AddLocal(self, "i32") EXCEPT !.frame_size = @ + size],
         builder |-> builder \o <<GlobalGet, LocalTee(offset), I32Const(0),
                                  Binop("i32.add"), GlobalSet>>,
         offset |-> offset, size |-> size]

create_call_stack_local(self, builder, ty) ==
    LET size == get_type_size(ty)
        offset == NewLocal(self)
    IN  [self |-> [AddLocal(self, "i32") EXCEPT !.frame_size = @ + size],
         builder |-> builder \o <<GlobalGet, LocalTee(offset), I32Const(size),
                                  Binop("i32.add"), GlobalSet>>,
         offset |-> offset, size |-> size]

write_to_memory_swapped(self, builder, offset_local, offset, ty) ==
    LET high == NewLocal(self)
        low == high + 1
    IN  [self |-> AddLocal(AddLocal(self, "i64"), "i64"),
         builder |-> builder \o
            <<LocalSet(low), LocalSet(high),
              LocalGet(offset_local), LocalGet(high), Store(offset + 8),
              LocalGet(offset_local), LocalGet(low), Store(offset)>>,
         size |-> 16]

write_to_memory(self, builder, offset_local, offset, ty) ==
    LET high == NewLocal(self)
        low == high + 1
    IN  [self |-> AddLocal(AddLocal(self, "i64"), "i64"),
         builder |-> builder \o
            <<LocalSet(low), LocalSet(high),
              LocalGet(offset_local), LocalGet(high), Store(offset),
              LocalGet(offset_local), LocalGet(low), Store(offset + 8)>>,
         size |-> 16]

read_from_memory_half(builder, offset, ty) ==
    [builder |-> builder \o <<LocalGet(offset), Load(0), LocalGet(offset), Load(8)>>,
     size |-> 8]

read_from_memory_swapped(builder, offset, ty) ==
    [builder |-> builder \o <<LocalGet(offset), Load(8), LocalGet(offset), Load(0)>>,
     size |-> 16]

read_from_memory(builder, offset, ty) ==
    [builder |-> builder \o <<LocalGet(offset), Load(0), LocalGet(offset), Load(8)>>,
     size |-> 16]

get_next_identifier_same(self) ==
    [self |-> self, id |-> self.next_identifier]

get_next_identifier(self) ==
    [self |-> [self EXCEPT !.next_identifier = @ + 1],
     id |-> self.next_identifier]

(***************************************************************************)
(* The visitor.  traverse_expr and the default traverse_* methods belong   *)
(* to crate::ast_visitor; the generator overrides the methods below.       *)
(***************************************************************************)
RECURSIVE traverse_expr(_, _, _)

\* the operands after the first one of an arithmetic form
RECURSIVE arithmetic_operands(_, _, _, _)
arithmetic_operands(self, builder, operands, helper_func) ==
    IF operands = <<>> THEN Ok(self, builder)
    ELSE LET r == traverse_expr(self, builder, Head(operands))
         IN  IF ~r.ok THEN r
             ELSE arithmetic_operands(r.self, Append(r.builder, Call(helper_func)),
                                      Tail(operands), helper_func)

HelperName(func, type_suffix) ==
    CASE func = "Add" /\ type_suffix = "int" -> "add-int"
      [] func = "Add" /\ type_suffix = "uint" -> "add-uint"
      [] func = "Subtract" /\ type_suffix = "int" -> "sub-int"
      [] func = "Subtract" /\ type_suffix = "uint" -> "sub-uint"
      [] func = "Multiply" /\ type_suffix = "int" -> "mul-int"
      [] func = "Multiply" /\ type_suffix = "uint" -> "mul-uint"
      [] func = "Divide" /\ type_suffix = "int" -> "div-int"
      [] func = "Divide" /\ type_suffix = "uint" -> "div-uint"
      [] func = "Modulo" /\ type_suffix = "int" -> "mod-int"
      [] func = "Modulo" /\ type_suffix = "uint" -> "mod-uint"

traverse_arithmetic(self, builder, expr) ==
    LET ty == get_expr_type(expr)
        func == expr[3]
        operands == expr[4]
    IN  IF ty[1] \notin {"IntType", "UIntType"}
        THEN Err([self EXCEPT !.error =
                    InternalError(<<"invalid type for arithmetic">>)], builder)
        ELSE IF func \notin {"Add", "Subtract", "Multiply", "Divide", "Modulo"}
        THEN Err([self EXCEPT !.error = NotImplemented], builder)
        ELSE LET type_suffix == IF ty[1] = "IntType" THEN "int" ELSE "uint"
                 r == traverse_expr(self, builder, operands[1])
             IN  IF ~r.ok THEN r
                 ELSE arithmetic_operands(r.self, r.builder, Tail(operands),
                                          HelperName(func, type_suffix))

visit_literal_value(self, builder, expr) ==
    LET value == expr[3]
    IN  CASE value[1] \in {"Int", "UInt"} ->
                Ok(self, builder \o <<I64Const(HighWord(value[2])),
                                      I64Const(LowWord(value[2]))>>)
          [] value[1] = "String" ->
                LET lit == add_string_literal(self, value[2])
                IN  Ok(lit.self, builder \o <<I32Const(lit.offset), I32Const(lit.len)>>)
          [] OTHER -> Err([self EXCEPT !.error = NotImplemented], builder)

visit_atom(self, builder, expr) ==
    LET atom == expr[3]
        types == clar2wasm_ty(get_expr_type(expr))
    IN  IF \A n \in 1..Len(types) : <<atom, n - 1>> \in DOMAIN self.locals
        THEN Ok(self, builder \o
                  [n \in 1..Len(types) |-> LocalGet(self.locals[<<atom, n - 1>>])])
        ELSE Err([self EXCEPT !.error =
                    InternalError(<<"unable to find local for", atom>>)], builder)

\* the locals of the parameters: one per lowered slot, "<param>.<n>"
RECURSIVE ParamSlots(_)
ParamSlots(args) ==
    IF args = <<>> THEN <<>>
    ELSE LET param == Head(args)
             param_types == clar2wasm_ty(param[2])
         IN  [n \in 1..Len(param_types) |->
                  [key |-> <<param[1], n - 1>>, ty |-> param_types[n]]]
             \o ParamSlots(Tail(args))

FunctionPrelude(frame_pointer) == <<GlobalGet, LocalSet(frame_pointer)>>

FunctionPostludeNoRestore(frame_pointer) == <<>>

FunctionPostlude(frame_pointer) == <<LocalGet(frame_pointer), GlobalSet>>

traverse_define_function(self, name, body, kind, opt_function_type) ==
    IF opt_function_type[1] # "Fixed"
    THEN [self |-> [self EXCEPT !.error = InternalError(
                      IF opt_function_type[1] = "None"
                      THEN <<"unable to find function type for", name>>
                      ELSE <<"expected fixed function type">>)],
          function_id |-> None]
    ELSE
    LET function_type == [args |-> opt_function_type[2],
                          returns |-> opt_function_type[3]]
        slots == ParamSlots(function_type.args)
        first == Len(self.module.locals)
        fn_locals == [k \in {slots[n].key : n \in 1..Len(slots)} |->
                        first + (CHOOSE n \in 1..Len(slots) : slots[n].key = k)]
        param_locals == [n \in 1..Len(slots) |-> first + n]
        params_types == [n \in 1..Len(slots) |-> slots[n].ty]
        results_types == clar2wasm_ty(function_type.returns)
        frame_pointer == first + Len(slots) + 1
        s1 == [self EXCEPT !.module.locals = @ \o params_types \o <<"i32">>,
                           !.locals = fn_locals]
        top_level_locals == self.locals
        r == traverse_expr(s1, <<>>, body)
    IN  IF ~r.ok THEN [self |-> r.self, function_id |-> None]
        ELSE LET func_body == FunctionPrelude(frame_pointer)
                                \o <<BlockInstr(r.builder)>>
                                \o FunctionPostlude(frame_pointer)
                 func == [params |-> param_locals, params_types |-> params_types,
                          results |-> results_types, body |-> func_body]
             IN  [self |-> [r.self EXCEPT !.locals = top_level_locals,
                                          !.module.funcs = (name :> func) @@ @],
                  function_id |-> <<"Some", name>>]

traverse_define_private_exported(self, builder, expr) ==
    LET r == traverse_define_function(self, expr[3], expr[4], "Private", expr[5])
    IN  IF r.function_id # None
        THEN Ok([r.self EXCEPT !.module.exports = Append(@, expr[3])], builder)
        ELSE Err(r.self, builder)

traverse_define_private(self, builder, expr) ==
    LET r == traverse_define_function(self, expr[3], expr[4], "Private", expr[5])
    IN  IF r.function_id # None THEN Ok(r.self, builder) ELSE Err(r.self, builder)

traverse_define_read_only(self, builder, expr) ==
    LET r == traverse_define_function(self, expr[3], expr[4], "ReadOnly", expr[5])
    IN  IF r.function_id # None
        THEN Ok([r.self EXCEPT !.module.exports = Append(@, expr[3])], builder)
        ELSE Err(r.self, builder)

traverse_define_public(self, builder, expr) ==
    LET r == traverse_define_function(self, expr[3], expr[4], "Public", expr[5])
    IN  IF r.function_id # None
        THEN Ok([r.self EXCEPT !.module.exports = Append(@, expr[3])], builder)
        ELSE Err(r.self, builder)

traverse_define_data_var(self, builder, expr) ==
    LET name == expr[3]
        initial == expr[4]
        next == get_next_identifier(self)
        var_id == next.id
        s1 == [next.self EXCEPT !.identifiers = (name :> var_id) @@ @]
        lit == add_identifier_string_literal(s1, name)
        ty == get_expr_type(initial)
        offset == NewLocal(lit.self)
        s2 == AddLocal(lit.self, "i32")
        b1 == builder \o <<I32Const(s2.literal_memory_end), LocalSet(offset)>>
        r == traverse_expr(s2, b1, initial)
    IN  IF ~r.ok THEN r
        ELSE LET w == write_to_memory(r.self, r.builder, offset, 0, ty)
             IN  Ok([w.self EXCEPT !.literal_memory_end = @ + w.size],
                    w.builder \o <<I32Const(var_id),
                                   I32Const(lit.offset), I32Const(lit.len),
                                   LocalGet(offset), I32Const(w.size),
                                   Call("define_variable")>>)

add_placeholder_for_type(ty) ==
    IF ty = "i32" THEN I32Const(0) ELSE I64Const(LowWord(0))

Placeholders(types) == [n \in 1..Len(types) |-> add_placeholder_for_type(types[n])]

traverse_ok(self, builder, expr) ==
    LET r == traverse_expr(self, Append(builder, I32Const(1)), expr[3])
        ty == get_expr_type(expr)
    IN  IF ~r.ok THEN r
        ELSE Ok(r.self, r.builder \o Placeholders(clar2wasm_ty(ty[3])))

traverse_err(self, builder, expr) ==
    LET ty == get_expr_type(expr)
    IN  traverse_expr(self,
                      Append(builder, I32Const(0)) \o Placeholders(clar2wasm_ty(ty[2])),
                      expr[3])

visit_call_user_defined(self, builder, expr) ==
    Ok(self, Append(builder, Call(expr[3])))

traverse_concat(self, builder, expr) ==
    LET ty == get_expr_type(expr)
        c == create_call_stack_local(self, builder, ty)
        offset == c.offset
        r1 == traverse_expr(c.self, c.builder, expr[3])
    IN  IF ~r1.ok THEN r1
        ELSE
        LET end_offset == NewLocal(r1.self)
            r2 == traverse_expr(AddLocal(r1.self, "i32"),
                                r1.builder \o <<LocalGet(offset), Call("memcpy"),
                                                LocalSet(end_offset)>>,
                                expr[4])
        IN  IF ~r2.ok THEN r2
            ELSE LET size == NewLocal(r2.self)
                 IN  Ok(AddLocal(r2.self, "i32"),
                        r2.builder \o <<LocalGet(end_offset), Call("memcpy"),
                                        LocalGet(offset), Binop("i32.sub"),
                                        LocalSet(size),
                                        LocalGet(offset), LocalGet(size)>>)

visit_var_get(self, builder, expr) ==
    LET var_id == self.identifiers[expr[3]]
        ty == get_expr_type(expr)
        c == create_call_stack_local(self, builder, ty)
        b1 == c.builder \o <<I32Const(var_id), LocalGet(c.offset), I32Const(c.size),
                             Call("get_variable")>>
    IN  Ok(c.self, read_from_memory(b1, c.offset, ty).builder)

\* the value was lowered by the default traverse_var_set before this visit
visit_var_set(self, builder, expr) ==
    LET var_id == self.identifiers[expr[3]]
        ty == get_expr_type(expr[4])
        c == create_call_stack_local(self, builder, ty)
        w == write_to_memory(c.self, c.builder, c.offset, 0, ty)
    IN  Ok(w.self, w.builder \o <<I32Const(var_id), LocalGet(c.offset),
                                  I32Const(c.size), Call("set_variable")>>)

\* the elements of a list, each written at offset + total_size
RECURSIVE list_elements(_, _, _, _, _, _)
list_elements(self, builder, list, offset, total_size, elem_ty) ==
    IF list = <<>> THEN Ok(self, builder)
    ELSE LET r == traverse_expr(self, builder, Head(list))
         IN  IF ~r.ok THEN r
             ELSE LET w == write_to_memory(r.self, r.builder, offset, total_size,
                                           elem_ty)
                  IN  list_elements(w.self, w.builder, Tail(list), offset,
                                    total_size + w.size, elem_ty)

traverse_list_cons(self, builder, expr) ==
    LET ty == get_expr_type(expr)
        elem_ty == ty[2]
        c == create_call_stack_local(self, builder, ty)
        r == list_elements(c.self, c.builder, expr[3], c.offset, 0, elem_ty)
    IN  IF ~r.ok THEN r
        ELSE Ok(r.self, r.builder \o <<LocalGet(c.offset), I32Const(c.size)>>)

traverse_fold(self, builder, expr) ==
    LET func == expr[3]
        sequence == expr[4]
        initial == expr[5]
        seq_ty == get_expr_type(sequence)
    IN  IF seq_ty[1] \notin {"ASCII", "UTF8", "ListType"}
        THEN Err([self EXCEPT !.error =
                    InternalError(<<"expected sequence type">>)], builder)
        ELSE
        LET seq_len == seq_ty[3]
            elem_ty == seq_ty[2]
            r1 == traverse_expr(self, builder, sequence)
        IN  IF ~r1.ok THEN r1
            ELSE
            LET offset == NewLocal(r1.self)
                end_offset == offset + 1
                elem_size == get_type_size(elem_ty)
                b1 == r1.builder \o
                        <<Drop, LocalSet(offset),
                          LocalGet(offset), I32Const(seq_len * elem_size),
                          Binop("i32.add"), LocalSet(end_offset)>>
                r2 == traverse_expr(AddLocal(AddLocal(r1.self, "i32"), "i32"),
                                    b1, initial)
            IN  IF ~r2.ok THEN r2
                ELSE IF seq_len = 0 THEN r2
                ELSE LET rd == read_from_memory(<<>>, offset, elem_ty)
                         loop == rd.builder \o
                                   <<Call(func),
                                     LocalGet(offset), I32Const(rd.size),
                                     Binop("i32.add"), LocalSet(offset),
                                     LocalGet(offset), LocalGet(end_offset),
                                     Binop("i32.lt_u"), BrIf>>
                     IN  Ok(r2.self, Append(r2.builder, LoopInstr(loop)))

\* crate::ast_visitor: visit_if is not overridden by the generator
visit_if(self, builder, expr) == Ok(self, builder)

\* crate::ast_visitor: lower a list of expressions in order
RECURSIVE traverse_all(_, _, _)
traverse_all(self, builder, exprs) ==
    IF exprs = <<>> THEN Ok(self, builder)
    ELSE LET r == traverse_expr(self, builder, Head(exprs))
         IN  IF ~r.ok THEN r ELSE traverse_all(r.self, r.builder, Tail(exprs))

\* crate::ast_visitor::traverse_expr: dispatch on the form; the default
\* traverse_* of a form lowers its children and then calls its visit_*
traverse_expr(self, builder, expr) ==
    CASE expr[1] = "LiteralValue" -> visit_literal_value(self, builder, expr)
      [] expr[1] = "Atom" -> visit_atom(self, builder, expr)
      [] expr[1] = "Arithmetic" -> traverse_arithmetic(self, builder, expr)
      [] expr[1] = "Ok" -> traverse_ok(self, builder, expr)
      [] expr[1] = "Err" -> traverse_err(self, builder, expr)
      [] expr[1] = "Concat" -> traverse_concat(self, builder, expr)
      [] expr[1] = "ListCons" -> traverse_list_cons(self, builder, expr)
      [] expr[1] = "Fold" -> traverse_fold(self, builder, expr)
      [] expr[1] = "VarGet" -> visit_var_get(self, builder, expr)
      [] expr[1] = "VarSet" ->
            LET r == traverse_expr(self, builder, expr[4])
            IN  IF ~r.ok THEN r ELSE visit_var_set(r.self, r.builder, expr)
      [] expr[1] = "CallUserDefined" ->
            LET r == traverse_all(self, builder, expr[4])
            IN  IF ~r.ok THEN r ELSE visit_call_user_defined(r.self, r.builder, expr)
      [] expr[1] = "If" ->
            LET r == traverse_all(self, builder, <<expr[3], expr[4], expr[5]>>)
            IN  IF ~r.ok THEN r ELSE visit_if(r.self, r.builder, expr)
      [] expr[1] = "DefineDataVar" -> traverse_define_data_var(self, builder, expr)
      [] expr[1] = "DefinePrivate" -> traverse_define_private(self, builder, expr)
      [] expr[1] = "DefineReadOnly" -> traverse_define_read_only(self, builder, expr)
      [] expr[1] = "DefinePublic" -> traverse_define_public(self, builder, expr)

(***************************************************************************)
(* Execution of the emitted instructions.  A value on the data stack is    *)
(* <<"i32", n>> or <<"i64", w>>.  The memory holds the bytes written so    *)
(* far; every other byte is 0.  The helpers of standard.wasm and the host  *)
(* functions follow their contracts.                                       *)
(***************************************************************************)
MemRead(mem, a) == IF a \in DOMAIN mem THEN mem[a] ELSE 0

MemBytes(mem, offset, n) == [k \in 1..n |-> MemRead(mem, offset + k - 1)]

MemWrite(mem, offset, bytes) ==
    [a \in DOMAIN mem \cup (offset..(offset + Len(bytes) - 1)) |->
        IF a >= offset /\ a < offset + Len(bytes)
        THEN bytes[a - offset + 1] ELSE mem[a]]

Push(m, v) == [m EXCEPT !.stack = Append(@, v)]
Top(m, k) == m.stack[Len(m.stack) - k]
PopN(m, n) == [m EXCEPT !.stack = SubSeq(@, 1, Len(@) - n)]
Logged(m, entry) == [m EXCEPT !.log = Append(@, entry)]

\* the 128-bit value of (high, low), for values that fit 24 bits
WordsToInt(high, low) ==
    low[1] + 256 * low[2] + 65536 * low[3] - (IF high[8] >= 128 THEN 16777216 ELSE 0)

ArithmeticHelpers ==
    {"add-int", "add-uint", "sub-int", "sub-uint", "mul-int", "mul-uint",
     "div-int", "div-uint", "mod-int", "mod-uint"}

HelperResult(name, a, b) ==
    CASE name \in {"add-int", "add-uint"} -> a + b
      [] name \in {"sub-int", "sub-uint"} -> a - b
      [] name \in {"mul-int", "mul-uint"} -> a * b
      [] name \in {"div-int", "div-uint"} -> IF b > 0 THEN a \div b ELSE 0
      [] name \in {"mod-int", "mod-uint"} -> IF b > 0 THEN a % b ELSE 0

\* add-int, sub-int, ...: two 128-bit operands in, one out
CallArithmetic(name, m) ==
    LET a == WordsToInt(Top(m, 3)[2], Top(m, 2)[2])
        b == WordsToInt(Top(m, 1)[2], Top(m, 0)[2])
        c == HelperResult(name, a, b)
    IN  Push(Push(PopN(m, 4), <<"i64", HighWord(c)>>), <<"i64", LowWord(c)>>)

\* memcpy(src_offset, length, dst_offset): the end of the destination
CallMemcpy(m) ==
    LET src == Top(m, 2)[2]
        length == Top(m, 1)[2]
        dst == Top(m, 0)[2]
    IN  Push([PopN(m, 3) EXCEPT
                !.mem = MemWrite(@, dst, MemBytes(m.mem, src, length))],
             <<"i32", dst + length>>)

HostFunctions == {"define_variable", "get_variable", "set_variable"}

CallHost(name, m) ==
    CASE name = "define_variable" ->
            LET id == Top(m, 4)[2]
                value == MemBytes(m.mem, Top(m, 1)[2], Top(m, 0)[2])
                nm == MemBytes(m.mem, Top(m, 3)[2], Top(m, 2)[2])
            IN  Logged([PopN(m, 5) EXCEPT
                          !.variables = (id :> [name |-> nm, value |-> value]) @@ @],
                       <<"host", name, m.sp, Top(m, 1)[2], Top(m, 0)[2]>>)
      [] name = "set_variable" ->
            LET id == Top(m, 2)[2]
                value == MemBytes(m.mem, Top(m, 1)[2], Top(m, 0)[2])
            IN  Logged([PopN(m, 3) EXCEPT
                          !.variables = IF id \in DOMAIN @
                                        THEN [@ EXCEPT ![id].value = value]
                                        ELSE @],
                       <<"host", name, m.sp, Top(m, 1)[2], Top(m, 0)[2]>>)
      [] name = "get_variable" ->
            LET id == Top(m, 2)[2]
            IN  Logged([PopN(m, 3) EXCEPT
                          !.mem = IF id \in DOMAIN m.variables
                                  THEN MemWrite(@, Top(m, 1)[2],
                                                m.variables[id].value)
                                  ELSE @],
                       <<"host", name, m.sp, Top(m, 1)[2], Top(m, 0)[2]>>)

I32Binop(op, a, b) ==
    CASE op = "i32.add" -> a + b
      [] op = "i32.sub" -> a - b
      [] op = "i32.lt_u" -> IF a < b THEN 1 ELSE 0

ZeroOf(ty) == IF ty = "i32" THEN <<"i32", 0>> ELSE <<"i64", LowWord(0)>>

LocalValue(m, l) ==
    IF l \in DOMAIN m.locals THEN m.locals[l] ELSE ZeroOf(module.locals[l])

RECURSIVE Exec(_, _)
RECURSIVE ExecLoop(_, _, _)

\* a call of a function the generator defined
CallUser(name, m) ==
    LET func == module.funcs[name]
        n == Len(func.params)
        frame == [l \in {func.params[k] : k \in 1..n} |->
                    m.stack[Len(m.stack) - n
                            + (CHOOSE k \in 1..n : func.params[k] = l)]]
        entered == Logged([PopN(m, n) EXCEPT !.stack = <<>>, !.locals = frame],
                          <<"enter", m.sp, name>>)
        done == Exec(func.body, entered)
        results == SubSeq(done.stack, Len(done.stack) - Len(func.results) + 1,
                          Len(done.stack))
    IN  Logged([done EXCEPT !.stack = PopN(m, n).stack \o results,
                            !.locals = m.locals],
               <<"return", name, m.sp, done.sp>>)

Step(instr, m) ==
    CASE instr[1] = "i32.const" -> Push(m, <<"i32", instr[2]>>)
      [] instr[1] = "i64.const" -> Push(m, <<"i64", instr[2]>>)
      [] instr[1] = "local.get" -> Push(m, LocalValue(m, instr[2]))
      [] instr[1] = "local.set" ->
            [PopN(m, 1) EXCEPT !.locals = (instr[2] :> Top(m, 0)) @@ @]
      [] instr[1] = "local.tee" ->
            [m EXCEPT !.locals = (instr[2] :> Top(m, 0)) @@ @]
      [] instr[1] = "global.get" ->
            Logged(Push(m, <<"i32", m.sp>>), <<"global.get", m.sp>>)
      [] instr[1] = "global.set" ->
            Logged([PopN(m, 1) EXCEPT !.sp = Top(m, 0)[2]],
                   <<"global.set", m.sp, Top(m, 0)[2]>>)
      [] instr[1] = "binop" ->
            Push(PopN(m, 2), <<"i32", I32Binop(instr[2], Top(m, 1)[2], Top(m, 0)[2])>>)
      [] instr[1] = "i64.store" ->
            [PopN(m, 2) EXCEPT !.mem = MemWrite(@, Top(m, 1)[2] + instr[2],
                                                Top(m, 0)[2])]
      [] instr[1] = "i64.load" ->
            Push(PopN(m, 1), <<"i64", MemBytes(m.mem, Top(m, 0)[2] + instr[2], 8)>>)
      [] instr[1] = "drop" -> PopN(m, 1)
      [] instr[1] = "block" -> Exec(instr[2], m)
      [] instr[1] = "loop" -> ExecLoop(instr[2], m, 1)
      [] instr[1] = "br_if" -> [PopN(m, 1) EXCEPT !.br = (Top(m, 0)[2] # 0)]
      [] instr[1] = "return" -> Logged(m, <<"exit", m.sp>>)
      [] instr[1] = "call" ->
            IF instr[2] \in ArithmeticHelpers THEN CallArithmetic(instr[2], m)
            ELSE IF instr[2] = "memcpy" THEN CallMemcpy(m)
            ELSE IF instr[2] \in HostFunctions THEN CallHost(instr[2], m)
            ELSE CallUser(instr[2], m)

Exec(code, m) ==
    IF code = <<>> \/ m.br THEN m
    ELSE Exec(Tail(code), Step(Head(code), m))

\* a loop: br_if at its end branches back to its top
ExecLoop(body, m, n) ==
    LET m1 == Exec(body, m)
    IN  IF m1.br /\ n < MaxIter
        THEN ExecLoop(body, [m1 EXCEPT !.br = FALSE], n + 1)
        ELSE [m1 EXCEPT !.br = FALSE, !.cut = @ \/ m1.br]

\* the memory after the active data segments are copied in
RECURSIVE DataInit(_, _)
DataInit(data, mem) ==
    IF data = <<>> THEN mem
    ELSE DataInit(Tail(data), MemWrite(mem, Head(data).offset, Head(data).data))

(***************************************************************************)
(* Inputs: typed expressions of the supported forms                        *)
(***************************************************************************)
IntLit(i) == <<"LiteralValue", IntType, <<"Int", i>>>>
UIntLit(u) == <<"LiteralValue", UIntType, <<"UInt", u>>>>
StrLit(bytes) == <<"LiteralValue", ASCII(Len(bytes)), <<"String", <<"ASCII", bytes>>>>>>
BoolLit == <<"LiteralValue", BoolType, <<"Bool", TRUE>>>>
BoolValue(b) == <<"LiteralValue", BoolType, <<"Bool", b>>>>
If(cond, expr1, expr2) == <<"If", expr1[2], cond, expr1, expr2>>
Atom(ty, name) == <<"Atom", ty, name>>
Arithmetic(ty, func, operands) == <<"Arithmetic", ty, func, operands>>
OkExpr(err_ty, value) == <<"Ok", ResponseType(value[2], err_ty), value>>
ErrExpr(ok_ty, value) == <<"Err", ResponseType(ok_ty, value[2]), value>>
Concat(lhs, rhs) == <<"Concat", ASCII(lhs[2][2] + rhs[2][2]), lhs, rhs>>
ListCons(elem_ty, list) == <<"ListCons", ListType(elem_ty, Len(list)), list>>
Fold(func, sequence, initial) == <<"Fold", initial[2], func, sequence, initial>>
VarGet(ty, name) == <<"VarGet", ty, name>>
VarSet(name, value) == <<"VarSet", BoolType, name, value>>
CallUserDefined(ty, name, args) == <<"CallUserDefined", ty, name, args>>
DefineDataVar(name, initial) == <<"DefineDataVar", NoType, name, initial>>
Fixed(args, returns) == <<"Fixed", args, returns>>
Define(kind, name, function_type, body) == <<kind, NoType, name, body, function_type>>

\* (define-data-var ...) forms
DataVarForms ==
    { DefineDataVar("x", IntLit(-2)),
      DefineDataVar("x", CallUserDefined(IntType, "f", <<StrLit(<<97>>)>>)),
      DefineDataVar("yy", UIntLit(3)),
      DefineDataVar("yy", BoolLit) }

\* (define-private ...), (define-read-only ...), (define-public ...) forms
FunctionForms ==
    { Define("DefinePrivate", "f", Fixed(<<<<"s", ASCII(1)>>>>, IntType), IntLit(7)),
      Define("DefineReadOnly", "g",
             Fixed(<<<<"a", IntType>>, <<"b", IntType>>>>, IntType),
             Arithmetic(IntType, "Subtract",
                        <<Atom(IntType, "a"), Atom(IntType, "b")>>)),
      Define("DefinePublic", "h", Fixed(<<>>, ResponseType(IntType, NoType)),
             OkExpr(NoType, VarGet(IntType, "x"))),
      Define("DefineReadOnly", "k", Fixed(<<<<"s", ASCII(1)>>>>, ASCII(3)),
             Concat(Atom(ASCII(1), "s"), StrLit(<<98, 99>>))),
      Define("DefineReadOnly", "q", Fixed(<<>>, ASCII(4)),
             Concat(CallUserDefined(ASCII(3), "k", <<StrLit(<<97>>)>>),
                    StrLit(<<100>>))),
      Define("DefinePublic", "m", <<"None">>, IntLit(0)),
      Define("DefinePrivate", "p", Fixed(<<<<"a", IntType>>>>, IntType),
             Arithmetic(IntType, "Power",
                        <<Atom(IntType, "a"), Atom(IntType, "a")>>)) }

\* expressions at the top level
ExpressionForms ==
    { VarGet(IntType, "x"),
      VarGet(UIntType, "yy"),
      VarSet("x", IntLit(5)),
      VarSet("yy", UIntLit(300)),
      Concat(StrLit(<<97>>), StrLit(<<98, 99>>)),
      Concat(Concat(StrLit(<<97>>), StrLit(<<98>>)), StrLit(<<99>>)),
      Concat(CallUserDefined(ASCII(3), "k", <<StrLit(<<97>>)>>), StrLit(<<100>>)),
      ListCons(IntType, <<IntLit(2), IntLit(4)>>),
      ListCons(UIntType, <<UIntLit(300), UIntLit(3)>>),
      Fold("g", ListCons(IntType, <<IntLit(2), IntLit(4)>>), IntLit(0)),
      Fold("g", ListCons(IntType, <<>>), IntLit(7)),
      Arithmetic(IntType, "Add", <<IntLit(1), IntLit(2), IntLit(3)>>),
      Arithmetic(UIntType, "Power", <<UIntLit(2), UIntLit(3)>>),
      OkExpr(NoType, IntLit(1)),
      ErrExpr(NoType, UIntLit(2)),
      StrLit(<<104, 105>>),
      CallUserDefined(IntType, "g", <<IntLit(9), IntLit(4)>>),
      CallUserDefined(ASCII(3), "k", <<StrLit(<<97>>)>>),
      If(BoolValue(TRUE), IntLit(42), IntLit(-1)),
      If(BoolValue(FALSE), IntLit(42), IntLit(-1)),
      BoolLit }

\* the names a form refers to are defined, and the name it defines is new
RECURSIVE Resolved(_, _)
Resolved(self, expr) ==
    CASE expr[1] = "VarGet" -> expr[3] \in DOMAIN self.identifiers
      [] expr[1] = "VarSet" ->
            expr[3] \in DOMAIN self.identifiers /\ Resolved(self, expr[4])
      [] expr[1] = "CallUserDefined" ->
            /\ expr[3] \in DOMAIN self.module.funcs
            /\ \A n \in 1..Len(expr[4]) : Resolved(self, expr[4][n])
      [] expr[1] = "Fold" ->
            /\ expr[3] \in DOMAIN self.module.funcs
            /\ Resolved(self, expr[4]) /\ Resolved(self, expr[5])
      [] expr[1] \in {"Arithmetic"} ->
            \A n \in 1..Len(expr[4]) : Resolved(self, expr[4][n])
      [] expr[1] \in {"ListCons"} ->
            \A n \in 1..Len(expr[3]) : Resolved(self, expr[3][n])
      [] expr[1] \in {"Ok", "Err"} -> Resolved(self, expr[3])
      [] expr[1] = "Concat" -> Resolved(self, expr[3]) /\ Resolved(self, expr[4])
      [] expr[1] = "DefineDataVar" ->
            expr[3] \notin DOMAIN self.identifiers /\ Resolved(self, expr[4])
      [] expr[1] \in {"DefinePrivate", "DefineReadOnly", "DefinePublic"} ->
            expr[3] \notin DOMAIN self.module.funcs /\ Resolved(self, expr[4])
      [] OTHER -> TRUE

\* the value standard.wasm gives the stack-pointer global: one constant for
\* every contract, whatever its literals
StackPointerInits == {0, 64}

(***************************************************************************)
(* The generator's lifecycle                                               *)
(***************************************************************************)
NewMachine ==
    [sp |-> 0, mem |-> <<>>, variables |-> <<>>, log |-> <<>>, stack |-> <<>>,
     locals |-> <<>>, br |-> FALSE, cut |-> FALSE, ran |-> FALSE]

\* WasmGenerator::new
Init ==
    /\ phase = "Fresh"
    /\ expressions = <<>>
    /\ module = [data |-> <<>>, exports |-> <<>>, funcs |-> <<>>, locals |-> <<>>]
    /\ error = None
    /\ literal_memory_end = 0
    /\ identifiers = <<>>
    /\ next_identifier = 0
    /\ locals = <<>>
    /\ frame_size = 0
    /\ current_function = <<>>
    /\ result = <<"Pending">>
    /\ machine = NewMachine
    /\ calls = 0

\* what generate() returns once the walk is over
generate_return_ok(walk_ok, self) == <<"Ok">>

generate_return(walk_ok, self) ==
    IF ~walk_ok THEN <<"Err", InternalError(<<"ast traversal failed">>)>>
    ELSE IF self.error # None THEN <<"Err", self.error>>
    ELSE <<"Ok">>

\* generate() is called: the top-level function is created
Generate ==
    /\ phase = "Fresh"
    /\ phase' = "Generating"
    /\ current_function' = <<>>
    /\ UNCHANGED <<expressions, module, error, literal_memory_end, identifiers,
                   next_identifier, locals, frame_size, result, machine, calls>>

\* traverse() lowers the next top-level form
Traverse(expr) ==
    /\ phase = "Generating"
    /\ Len(expressions) < MaxForms
    /\ Resolved(Self, expr)
    /\ LET r == traverse_expr(Self, current_function, expr)
       IN  /\ expressions' = Append(expressions, expr)
           /\ module' = r.self.module
           /\ error' = r.self.error
           /\ literal_memory_end' = r.self.literal_memory_end
           /\ identifiers' = r.self.identifiers
           /\ next_identifier' = r.self.next_identifier
           /\ locals' = r.self.locals
           /\ frame_size' = r.self.frame_size
           /\ current_function' = r.builder
           /\ IF r.ok
              THEN phase' = phase /\ result' = result
              ELSE /\ result' = generate_return(FALSE, r.self)
                   /\ phase' = IF result'[1] = "Ok" THEN "Finalized" ELSE "Failed"
    /\ UNCHANGED <<machine, calls>>

TraverseDefineDataVar == \E expr \in DataVarForms : Traverse(expr)
TraverseDefineFunction == \E expr \in FunctionForms : Traverse(expr)
TraverseExpression == \E expr \in ExpressionForms : Traverse(expr)

\* the last instructions of the top-level function
finish_top_level_no_set(self) == <<Return>>

finish_top_level(self) == <<I32Const(self.literal_memory_end), GlobalSet, Return>>

\* the walk is over: generate() finishes the top-level function
Finish ==
    /\ phase = "Generating"
    /\ result' = generate_return(TRUE, Self)
    /\ IF result'[1] = "Ok"
       THEN /\ phase' = "Finalized"
            /\ current_function' = current_function \o finish_top_level(Self)
            /\ module' = [module EXCEPT !.exports = Append(@, ".top-level")]
       ELSE /\ phase' = "Failed"
            /\ UNCHANGED <<current_function, module>>
    /\ UNCHANGED <<expressions, error, literal_memory_end, identifiers,
                   next_identifier, locals, frame_size, machine, calls>>

(***************************************************************************)
(* The host instantiates the module and calls its exports                  *)
(***************************************************************************)
RunTopLevel ==
    /\ phase = "Finalized"
    /\ ~machine.ran
    /\ \E sp \in StackPointerInits :
          machine' = [Exec(current_function,
                           [machine EXCEPT !.sp = sp,
                                           !.mem = DataInit(module.data, <<>>)])
                        EXCEPT !.ran = TRUE]
    /\ UNCHANGED <<phase, expressions, module, error, literal_memory_end,
                   identifiers, next_identifier, locals, frame_size,
                   current_function, result, calls>>

\* the arguments of a call: every slot holds v
Arguments(params_types, v) ==
    [n \in 1..Len(params_types) |->
        IF params_types[n] = "i32" THEN <<"i32", v>> ELSE <<"i64", LowWord(v)>>]

CallExported ==
    /\ phase = "Finalized"
    /\ machine.ran
    /\ calls < MaxCalls
    /\ \E n \in 1..Len(module.exports), v \in {0, 1} :
          /\ module.exports[n] # ".top-level"
          /\ machine' = CallUser(module.exports[n],
                 [machine EXCEPT !.stack =
                     Arguments(module.funcs[module.exports[n]].params_types, v)])
    /\ calls' = calls + 1
    /\ UNCHANGED <<phase, expressions, module, error, literal_memory_end,
                   identifiers, next_identifier, locals, frame_size,
                   current_function, result>>

Next ==
    \/ Generate
    \/ TraverseDefineDataVar
    \/ TraverseDefineFunction
    \/ TraverseExpression
    \/ Finish
    \/ RunTopLevel
    \/ CallExported

Spec == Init /\ [][Next]_vars

(***************************************************************************)
(* The value-stack shape of an instruction sequence: the kinds it leaves   *)
(* on the data stack, by the signatures of the module's functions.         *)
(***************************************************************************)
Signature(mod, name) ==
    CASE name \in ArithmeticHelpers ->
            [params |-> <<"i64", "i64", "i64", "i64">>, results |-> <<"i64", "i64">>]
      [] name = "memcpy" -> [params |-> <<"i32", "i32", "i32">>, results |-> <<"i32">>]
      [] name = "define_variable" ->
            [params |-> <<"i32", "i32", "i32", "i32", "i32">>, results |-> <<>>]
      [] name \in {"get_variable", "set_variable"} ->
            [params |-> <<"i32", "i32", "i32">>, results |-> <<>>]
      [] OTHER -> [params |-> mod.funcs[name].params_types,
                   results |-> mod.funcs[name].results]

Shrink(stack, n) == SubSeq(stack, 1, Len(stack) - n)

RECURSIVE StackKinds(_, _, _)
StackKinds(mod, code, stack) ==
    IF code = <<>> THEN stack
    ELSE
    LET instr == Head(code)
        after ==
          CASE instr[1] = "i32.const" -> Append(stack, "i32")
            [] instr[1] = "i64.const" -> Append(stack, "i64")
            [] instr[1] = "local.get" -> Append(stack, mod.locals[instr[2]])
            [] instr[1] = "local.set" -> Shrink(stack, 1)
            [] instr[1] = "local.tee" -> stack
            [] instr[1] = "global.get" -> Append(stack, "i32")
            [] instr[1] = "global.set" -> Shrink(stack, 1)
            [] instr[1] = "binop" -> Append(Shrink(stack, 2), "i32")
            [] instr[1] = "i64.store" -> Shrink(stack, 2)
            [] instr[1] = "i64.load" -> Append(Shrink(stack, 1), "i64")
            [] instr[1] = "drop" -> Shrink(stack, 1)
            [] instr[1] \in {"block", "loop"} -> StackKinds(mod, instr[2], stack)
            [] instr[1] = "br_if" -> Shrink(stack, 1)
            [] instr[1] = "return" -> stack
            [] instr[1] = "call" ->
                  Shrink(stack, Len(Signature(mod, instr[2]).params))
                    \o Signature(mod, instr[2]).results
    IN  StackKinds(mod, Tail(code), after)

(***************************************************************************)
(* What the checks read off the state                                      *)
(***************************************************************************)
Log == machine.log
LogIndex == 1..Len(Log)

\* the forms of a kind among the forms walked, in order
RECURSIVE FormNames(_, _)
FormNames(exprs, kinds) ==
    IF exprs = <<>> THEN <<>>
    ELSE (IF Head(exprs)[1] \in kinds THEN <<Head(exprs)[3]>> ELSE <<>>)
         \o FormNames(Tail(exprs), kinds)

DefinedVariables == FormNames(expressions, {"DefineDataVar"})

IndexOf(seq, x) == CHOOSE n \in 1..Len(seq) : seq[n] = x

SegmentEnd(d) == d.offset + Len(d.data)

\* the buffers of the initial values: (offset, size) passed to define_variable
InitRegions(code) ==
    LET at == {k \in 1..Len(code) : code[k] = Call("define_variable")}
        OffsetOf(k) ==
            LET j == CHOOSE j \in 2..k : code[j] = LocalSet(code[k - 2][2])
            IN  code[j - 1][2]
    IN  {<<k, OffsetOf(k), code[k - 1][2]>> : k \in at}

\* the regions of the literal region: data segments and initial values
Regions ==
    {<<n, module.data[n].offset, Len(module.data[n].data)>> :
        n \in 1..Len(module.data)}
    \cup {<<Len(module.data) + r[1], r[2], r[3]>> : r \in InitRegions(current_function)}

Covering(b) == {r \in Regions : r[2] <= b /\ b < r[2] + r[3]}

\* the literal written last to a variable by the top-level forms, if any
RECURSIVE LastWrite(_, _)
LastWrite(exprs, name) ==
    IF exprs = <<>> THEN <<"Unknown">>
    ELSE LET e == exprs[Len(exprs)]
             value == e[4]
         IN  IF e[1] \in {"DefineDataVar", "VarSet"} /\ e[3] = name
             THEN IF value[1] = "LiteralValue" /\ value[3][1] \in {"Int", "UInt"}
                  THEN <<"Literal", value[3][2]>>
                  ELSE <<"Unknown">>
             ELSE LastWrite(SubSeq(exprs, 1, Len(exprs) - 1), name)

LastForm == expressions[Len(expressions)]

\* .top-level has run and the form walked last is of the given kind
RanLast(kind) ==
    machine.ran /\ calls = 0 /\ expressions # <<>> /\ LastForm[1] = kind

\* the last n values of the data stack
TopOfStack(m, n) == SubSeq(m.stack, Len(m.stack) - n + 1, Len(m.stack))

\* the value of the stack-pointer global when .top-level was entered
InitialStackPointer ==
    IF Log = <<>> THEN machine.sp
    ELSE IF Log[1][1] = "host" THEN Log[1][3] ELSE Log[1][2]

\* the generator as WasmGenerator::new leaves it
NewSelf ==
    [module |-> [data |-> <<>>, exports |-> <<>>, funcs |-> <<>>, locals |-> <<>>],
     error |-> None, literal_memory_end |-> 0, identifiers |-> <<>>,
     next_identifier |-> 0, locals |-> <<>>, frame_size |-> 0]

\* the walk of the forms before the last one
BeforeLast == traverse_all(NewSelf, <<>>, SubSeq(expressions, 1, Len(expressions) - 1))

\* the machine when .top-level reaches the code of the last form
MachineBeforeLast ==
    Exec(BeforeLast.builder,
         [NewMachine EXCEPT !.sp = InitialStackPointer,
                            !.mem = DataInit(module.data, <<>>)])

\* an expression built of string literals and concat only, and its bytes
RECURSIVE PlainString(_)
PlainString(expr) ==
    CASE expr[1] = "LiteralValue" -> expr[3][1] = "String"
      [] expr[1] = "Concat" -> PlainString(expr[3]) /\ PlainString(expr[4])
      [] OTHER -> FALSE

RECURSIVE StringBytes(_)
StringBytes(expr) ==
    IF expr[1] = "Concat" THEN StringBytes(expr[3]) \o StringBytes(expr[4])
    ELSE expr[3][2][2]

\* (fold f (list e1 ... en) init) written out as the doc comment of
\* traverse_fold does: (f en (... (f e1 init)))
RECURSIVE Unfolded(_, _, _)
Unfolded(func, list, acc) ==
    IF list = <<>> THEN acc
    ELSE Unfolded(func, Tail(list),
                  CallUserDefined(acc[2], func, <<Head(list), acc>>))

(***************************************************************************)
(* Claims                                                                  *)
(***************************************************************************)

\* C1: every call of a generated function returns with the stack-pointer
\* global at the value it had when the function was entered.
C1_StackPointerBalance ==
    \A n \in LogIndex :
        Log[n][1] = "return" => Log[n][4] = Log[n][3]

\* a function that allocated a frame slot has returned, its postlude
\* having lowered the stack pointer again
C1_Witness ==
    \E n \in LogIndex :
        /\ n > 1
        /\ Log[n][1] = "return"
        /\ Log[n - 1][1] = "global.set"
        /\ Log[n - 1][3] < Log[n - 1][2]

\* C2: at every read of the stack pointer and at every host call, the
\* stack-pointer global is at or above the end of the literal region.
C2_StackPointerAboveLiterals ==
    \A n \in LogIndex :
        /\ Log[n][1] = "global.get" => Log[n][2] >= literal_memory_end
        /\ Log[n][1] = "host" => Log[n][3] >= literal_memory_end

\* C3: a step never lowers literal_memory_end, keeps the data segments it
\* found, places the first new segment at literal_memory_end and every
\* next one at or after the end of the one before, all below the new
\* literal_memory_end; no two data segments share a byte.
C3_Step ==
    LET old == module.data
        new == module.data'
    IN  /\ literal_memory_end' >= literal_memory_end
        /\ Len(new) >= Len(old)
        /\ SubSeq(new, 1, Len(old)) = old
        /\ Len(new) > Len(old) => new[Len(old) + 1].offset = literal_memory_end
        /\ \A n \in (Len(old) + 1)..Len(new) :
              /\ SegmentEnd(new[n]) <= literal_memory_end'
              /\ n > 1 => new[n].offset >= SegmentEnd(new[n - 1])
        /\ \A i, j \in 1..Len(new) :
              i < j => SegmentEnd(new[i]) <= new[j].offset

C3_LiteralRegionMonotonic == [][C3_Step]_vars

\* several segments were interned and an initial value was reserved
C3_Witness ==
    /\ Len(module.data) >= 3
    /\ \E n \in 2..Len(module.data) :
          module.data[n].offset > SegmentEnd(module.data[n - 1])

\* C4: every byte below literal_memory_end lies in exactly one region (a
\* data segment or the buffer of an initial value) and no region reaches
\* beyond literal_memory_end.
C4_RegionsTile ==
    /\ \A b \in 0..(literal_memory_end - 1) : Cardinality(Covering(b)) = 1
    /\ \A r \in Regions : r[2] + r[3] <= literal_memory_end

\* C5: the names defined have the ids 0, 1, ... in definition order, no two
\* names share an id, next_identifier counts them, and a var-get or
\* var-set lowered later passes the id of its name to the host.
C5_IdentifierUniqueness ==
    /\ DOMAIN identifiers = {DefinedVariables[n] : n \in 1..Len(DefinedVariables)}
    /\ next_identifier = Len(DefinedVariables)
    /\ \A n \in 1..Len(DefinedVariables) : identifiers[DefinedVariables[n]] = n - 1
    /\ \A a, b \in DOMAIN identifiers : a # b => identifiers[a] # identifiers[b]
    /\ \A name \in DOMAIN identifiers :
          LET id == I32Const(IndexOf(DefinedVariables, name) - 1)
              get == visit_var_get(Self, <<>>, VarGet(IntType, name)).builder
              set == visit_var_set(Self, <<>>, VarSet(name, IntLit(0))).builder
          IN  /\ \A k \in 1..Len(get) : get[k] = Call("get_variable") => get[k - 3] = id
              /\ \A k \in 1..Len(set) : set[k] = Call("set_variable") => set[k - 3] = id
              /\ \E k \in 1..Len(get) : get[k] = Call("get_variable")
              /\ \E k \in 1..Len(set) : set[k] = Call("set_variable")

\* two variables are defined and the second one is read
C5_Witness ==
    /\ Len(DefinedVariables) = 2
    /\ LastForm[1] = "VarGet"
    /\ LastForm[3] = DefinedVariables[2]

\* C6: the exports of the module generate() returns are the public and
\* read-only functions in definition order, then .top-level.
C6_ExportCompleteness ==
    phase = "Finalized" =>
        module.exports =
            FormNames(expressions, {"DefineReadOnly", "DefinePublic"})
                \o <<".top-level">>

\* a contract with a private and an exported function was generated
C6_Witness ==
    /\ phase = "Finalized"
    /\ FormNames(expressions, {"DefinePrivate"}) # <<>>
    /\ FormNames(expressions, {"DefineReadOnly", "DefinePublic"}) # <<>>

\* C7: when an error is recorded on the generator, generate() returns that
\* error.
C7_RecordedErrorReturned ==
    (phase = "Failed" /\ error # None) => result = <<"Err", error>>

\* C8: the lifecycle Fresh -> Generating -> Finalized | Failed: terminal
\* states are never left, Finalized is reached exactly when no error is
\* recorded at the end of the walk and yields the module with .top-level,
\* Failed yields an error and no module.
C8_Step ==
    /\ phase = "Fresh" => phase' \in {"Fresh", "Generating"}
    /\ phase = "Generating" => phase' \in {"Generating", "Finalized", "Failed"}
    /\ phase \in {"Finalized", "Failed"} =>
          phase' = phase /\ result' = result /\ module' = module
    /\ (phase = "Generating" /\ phase' # "Generating") =>
          (phase' = "Finalized" <=> error' = None)

C8_State ==
    /\ phase \in {"Fresh", "Generating"} => result = <<"Pending">> /\ error = None
    /\ phase = "Finalized" =>
          /\ result = <<"Ok">>
          /\ error = None
          /\ \E n \in 1..Len(module.exports) : module.exports[n] = ".top-level"
    /\ phase = "Failed" =>
          /\ result[1] = "Err"
          /\ \A n \in 1..Len(module.exports) : module.exports[n] # ".top-level"

C8_Lifecycle == []C8_State /\ [][C8_Step]_vars

\* a generator that finished stays Finalized while its module runs
C8_Witness == phase = "Finalized" /\ calls = 1

\* C9: the instructions emitted for a form leave on the data stack the
\* lowered slots of the form's type, and nothing for define-data-var; the
\* body of every function leaves the lowered slots of its return type.
C9_SlotShape ==
    phase = "Generating" =>
        /\ \A expr \in ExpressionForms \cup DataVarForms :
              Resolved(Self, expr) =>
                  LET r == traverse_expr(Self, <<>>, expr)
                  IN  r.ok => StackKinds(r.self.module, r.builder, <<>>) =
                                  IF expr[1] = "DefineDataVar" THEN <<>>
                                  ELSE clar2wasm_ty(get_expr_type(expr))
        /\ \A name \in DOMAIN module.funcs :
              StackKinds(module, <<module.funcs[name].body[3]>>, <<>>) =
                  module.funcs[name].results

\* C10: a (var-get x) at the end of the top-level forms leaves the high
\* and low words of the literal last written to x by define-data-var or
\* var-set.
C10_ReadsLastWrite ==
    (machine.ran /\ calls = 0 /\ expressions # <<>> /\ LastForm[1] = "VarGet") =>
        LET w == LastWrite(expressions, LastForm[3])
            n == Len(machine.stack)
        IN  w[1] = "Literal" =>
              /\ n >= 2
              /\ machine.stack[n - 1] = <<"i64", HighWord(w[2])>>
              /\ machine.stack[n] = <<"i64", LowWord(w[2])>>

\* a variable is defined, set to another literal and read
C10_Witness ==
    /\ machine.ran /\ calls = 0
    /\ Len(expressions) >= 3
    /\ LastForm[1] = "VarGet"
    /\ expressions[Len(expressions) - 1][1] = "VarSet"
    /\ expressions[Len(expressions) - 1][3] = LastForm[3]
    /\ LastWrite(expressions, LastForm[3])[1] = "Literal"

\* C11: the top-level function ends by setting the stack-pointer global to
\* literal_memory_end and returning; literal_memory_end is at or past the
\* end of every data segment and of every initial-value buffer, wherever
\* it was interned; once .top-level has run, the stack pointer equals it.
C11_TopLevelFinalization ==
    /\ phase = "Finalized" =>
          LET n == Len(current_function)
          IN  /\ n >= 3
              /\ SubSeq(current_function, n - 2, n) =
                    <<I32Const(literal_memory_end), GlobalSet, Return>>
              /\ \A r \in Regions : r[2] + r[3] <= literal_memory_end
    /\ machine.ran => machine.sp = literal_memory_end

\* .top-level ran for a contract with a literal inside a function body and
\* a variable initializer
C11_Witness ==
    /\ machine.ran
    /\ "k" \in DOMAIN module.funcs
    /\ DefinedVariables # <<>>
    /\ machine.sp > 0

\* C12: a fold over a list leaves the value of the nested calls
\* (f en (... (f e1 init))), the element being the first argument and the
\* previous result the second; over an empty list it leaves init.
C12_FoldSemantics ==
    (RanLast("Fold") /\ LastForm[4][1] = "ListCons") =>
        LET e == Unfolded(LastForm[3], LastForm[4][3], LastForm[5])
            r == traverse_expr(Self, <<>>, e)
            m == Exec(r.builder, [NewMachine EXCEPT !.sp = machine.sp])
        IN  /\ Len(machine.stack) >= 2
            /\ TopOfStack(machine, 2) = m.stack

\* C13: a concat of string literals or nested concats leaves (offset, len)
\* where offset is the stack pointer at which its frame slot was allocated
\* and len the sum of the operands' lengths; the bytes at offset are the
\* bytes of the left operand followed by those of the right, all inside
\* the slot.
C13_Concat ==
    (RanLast("Concat") /\ PlainString(LastForm)) =>
        LET bytes == StringBytes(LastForm)
            offset == MachineBeforeLast.sp
        IN  /\ Len(machine.stack) >= 2
            /\ TopOfStack(machine, 2) = <<<<"i32", offset>>, <<"i32", Len(bytes)>>>>
            /\ MemBytes(machine.mem, offset, Len(bytes)) = bytes
            /\ Len(bytes) <= get_type_size(get_expr_type(LastForm))

\* C14: a contract ending in (if true v1 v2) or (if false v1 v2) is
\* generated, and running it leaves v1, respectively v2.
C14_Conditional ==
    (expressions # <<>> /\ LastForm[1] = "If" /\ phase # "Generating") =>
        LET chosen == IF LastForm[3][3][2] THEN LastForm[4] ELSE LastForm[5]
        IN  /\ phase = "Finalized"
            /\ RanLast("If") =>
                  /\ Len(machine.stack) >= 2
                  /\ TopOfStack(machine, 2) =
                        <<<<"i64", HighWord(chosen[3][2])>>,
                          <<"i64", LowWord(chosen[3][2])>>>>

\* the source types the generator is specified for, and the table of their
\* lowered slots
RECURSIVE SupportedType(_)
SupportedType(ty) ==
    CASE ty[1] \in {"NoType", "IntType", "UIntType", "ASCII", "UTF8"} -> TRUE
      [] ty[1] = "ResponseType" -> SupportedType(ty[2]) /\ SupportedType(ty[3])
      [] ty[1] = "ListType" -> SupportedType(ty[2])
      [] OTHER -> FALSE

RECURSIVE lowered_slots(_)
lowered_slots(ty) ==
    CASE ty[1] = "NoType" -> <<"i32">>
      [] ty[1] \in {"IntType", "UIntType"} -> <<"i64", "i64">>
      [] ty[1] = "ResponseType" ->
            <<"i32">> \o lowered_slots(ty[2]) \o lowered_slots(ty[3])
      [] ty[1] \in {"ASCII", "UTF8", "ListType"} -> <<"i32", "i32">>

\* C15: clar2wasm_ty gives every supported type of a walked form the slots
\* of the table (a list: offset and length) and fails on the other types.
C15_TypeLowering ==
    \A n \in 1..Len(expressions) :
        LET ty == get_expr_type(expressions[n])
        IN  IF SupportedType(ty)
            THEN clar2wasm_ty(ty) = lowered_slots(ty)
            ELSE clar2wasm_ty(ty) = Unimplemented

\* the kinds of form traverse_define_function lowers
FunctionKinds == {"DefinePrivate", "DefineReadOnly", "DefinePublic"}

\* C16: a step that lowers a function definition leaves the generator's
\* local environment as it found it, whether the lowering succeeds, finds
\* no function type or fails in the body.
C16_Step ==
    (expressions' # expressions
        /\ expressions'[Len(expressions')][1] \in FunctionKinds) =>
            locals' = locals

C16_EnvironmentRestored == [][C16_Step]_vars

\* the bytes of the frame slots an instruction sequence allocates: the
\* constants of the increments create_call_stack_local emitted in it
RECURSIVE FrameBytes(_)
FrameBytes(code) ==
    IF code = <<>> THEN 0
    ELSE IF Head(code)[1] \in {"block", "loop"}
    THEN FrameBytes(Head(code)[2]) + FrameBytes(Tail(code))
    ELSE IF Len(code) >= 5 /\ SubSeq(code, 1, 2) = <<GlobalGet, LocalTee(code[2][2])>>
                           /\ SubSeq(code, 4, 5) = <<Binop("i32.add"), GlobalSet>>
    THEN code[3][2] + FrameBytes(SubSeq(code, 6, Len(code)))
    ELSE FrameBytes(Tail(code))

\* C17: when a function has been lowered, frame_size is the sum of the
\* sizes of the frame slots allocated in that function's body.
C17_FrameSize ==
    (expressions # <<>> /\ LastForm[1] \in FunctionKinds
        /\ LastForm[3] \in DOMAIN module.funcs) =>
            frame_size = FrameBytes(module.funcs[LastForm[3]].body)

Returns(log, name) ==
    Cardinality({k \in 1..Len(log) : log[k][1] = "return" /\ log[k][2] = name})

\* the instructions of the last form in the top-level function
CodeOfLast ==
    SubSeq(current_function, Len(BeforeLast.builder) + 1, Len(current_function) - 3)

\* C19: a fold over a list of n >= 1 elements runs its loop to the end
\* with exactly n calls of the function, the read offset going from the
\* list base to end_offset = base + n * 16; for n = 0 neither a loop nor a
\* call of the function is emitted.
C19_FoldTermination ==
    (RanLast("Fold") /\ LastForm[4][1] = "ListCons") =>
        LET func == LastForm[3]
            n == get_expr_type(LastForm[4])[3]
            elem_width == get_type_size(get_expr_type(LastForm[4])[2])
            base == MachineBeforeLast.sp
            code == CodeOfLast
            loops == {k \in 1..Len(code) : code[k][1] = "loop"}
        IN  IF n = 0
            THEN /\ loops = {}
                 /\ \A k \in 1..Len(code) : code[k] # Call(func)
                 /\ Returns(Log, func) = Returns(MachineBeforeLast.log, func)
            ELSE /\ loops = {Len(code)}
                 /\ ~machine.cut
                 /\ Returns(Log, func) = Returns(MachineBeforeLast.log, func) + n
                 /\ LET offset == code[Len(code)][2][1][2]
                        end_offset == offset + 1
                    IN  /\ machine.locals[end_offset] = <<"i32", base + n * elem_width>>
                        /\ machine.locals[offset] = machine.locals[end_offset]

\* a fold over two elements ran after an earlier call of the same function
C19_Witness ==
    /\ RanLast("Fold")
    /\ get_expr_type(LastForm[4])[3] = 2
    /\ Returns(Log, LastForm[3]) = 3

\* two regions <<offset, size>> share no byte
DisjointRegions(s, t) == s[1] + s[2] <= t[1] \/ t[1] + t[2] <= s[1]

\* The frame slots of a run, read off its log: a slot is allocated where
\* the stack pointer is read and then raised; frames[n] holds the slots of
\* the n-th active call.  Every new slot is disjoint from the slots of all
\* active calls, and a buffer handed to get_variable or set_variable lies
\* inside a slot of the current call.
RECURSIVE SlotsDisjoint(_, _, _)
SlotsDisjoint(log, k, frames) ==
    IF k > Len(log) THEN TRUE
    ELSE
    LET e == log[k]
        top == Len(frames)
    IN  CASE e[1] = "enter" -> SlotsDisjoint(log, k + 1, Append(frames, {}))
          [] e[1] = "return" -> SlotsDisjoint(log, k + 1, SubSeq(frames, 1, top - 1))
          [] e[1] = "exit" -> SlotsDisjoint(log, k + 1, <<{}>>)
          [] e[1] = "host" ->
                /\ e[2] # "define_variable" =>
                      \E s \in frames[top] : s[1] <= e[4] /\ e[4] + e[5] <= s[1] + s[2]
                /\ SlotsDisjoint(log, k + 1, frames)
          [] e[1] = "global.get" ->
                IF k < Len(log) /\ log[k + 1][1] = "global.set"
                                /\ log[k + 1][2] = e[2] /\ log[k + 1][3] >= e[2]
                THEN LET slot == <<e[2], log[k + 1][3] - e[2]>>
                     IN  /\ \A n \in 1..top : \A s \in frames[n] :
                                DisjointRegions(s, slot)
                         /\ SlotsDisjoint(log, k + 2,
                                          [frames EXCEPT ![top] = @ \cup {slot}])
                ELSE SlotsDisjoint(log, k + 1, frames)
          [] OTHER -> SlotsDisjoint(log, k + 1, frames)

\* C20: the frame slots allocated during a call are pairwise disjoint and
\* disjoint from the slots of the callers that are still active.
C20_FrameSlotsDisjoint == SlotsDisjoint(Log, 1, <<{}>>)

\* an exported function allocated a slot and then called a function that
\* allocated a slot of its own
C20_Witness ==
    /\ calls = 1
    /\ \E k \in 2..(Len(Log) - 3) :
          /\ Log[k][1] = "enter"
          /\ Log[k - 1][1] = "global.set" /\ Log[k - 1][3] > Log[k - 1][2]
          /\ Log[k + 1][1] = "global.get"
          /\ Log[k + 2][1] = "global.get"
          /\ Log[k + 3][1] = "global.set" /\ Log[k + 3][3] > Log[k + 3][2]
          /\ \E j \in 1..(k - 1) : Log[j][1] = "enter" /\ Log[j][3] = "q"

====
